---- MODULE Spec2Model ----
(***************************************************************************)
(* any_worker::Rate (src/any_worker/src/Rate.cpp): a periodic-loop pacer.   *)
(*                                                                         *)
(* Time stamps are timespec records [tv_sec, tv_nsec] of integers.  The     *)
(* double fields (timeStep_, the thresholds, the awake statistics) are      *)
(* IEEE-754 binary64 values: a sign, a mantissa of 53 bits kept as a        *)
(* little-endian sequence of limbs, and a binary exponent, with round to    *)
(* nearest, ties to even, after every operation.  Exponent overflow and     *)
(* subnormals are not modelled (no value of the model comes near them).     *)
(***************************************************************************)
EXTENDS Integers, Sequences, FiniteSets, TLC

(***************************************************************************)
(* Natural numbers of arbitrary size: little-endian sequences of limbs in   *)
(* base 2^15, without leading (high) zero limbs.                           *)
(***************************************************************************)
LimbBits == 15
Base == 2 ^ LimbBits

RECURSIVE NatToL(_)
NatToL(n) ==
  IF n = 0 THEN <<>> ELSE <<n % Base>> \o NatToL(n \div Base)

RECURSIVE LToNat(_)
LToNat(b) ==
  IF b = <<>> THEN 0 ELSE Head(b) + Base * LToNat(Tail(b))

RECURSIVE LNorm(_)
LNorm(b) ==
  IF b = <<>> THEN <<>>
  ELSE IF b[Len(b)] = 0 THEN LNorm(SubSeq(b, 1, Len(b) - 1))
  ELSE b

LLimb(b, i) == IF i <= Len(b) THEN b[i] ELSE 0

LMaxLen(a, b) == IF Len(a) >= Len(b) THEN Len(a) ELSE Len(b)

RECURSIVE LAddC(_, _, _, _)
LAddC(a, b, i, c) ==
  IF i > LMaxLen(a, b)
  THEN (IF c > 0 THEN <<c>> ELSE <<>>)
  ELSE LET s == LLimb(a, i) + LLimb(b, i) + c
       IN  <<s % Base>> \o LAddC(a, b, i + 1, s \div Base)

LAdd(a, b) == LAddC(a, b, 1, 0)

\* a - b for a >= b
RECURSIVE LSubC(_, _, _, _)
LSubC(a, b, i, c) ==
  IF i > Len(a) THEN <<>>
  ELSE LET s == LLimb(a, i) - LLimb(b, i) - c
       IN  IF s < 0 THEN <<s + Base>> \o LSubC(a, b, i + 1, 1)
           ELSE <<s>> \o LSubC(a, b, i + 1, 0)

LSub(a, b) == LNorm(LSubC(a, b, 1, 0))

\* -1, 0, 1 as a < b, a = b, a > b (both without leading zeros)
RECURSIVE LCmpAt(_, _, _)
LCmpAt(a, b, i) ==
  IF i = 0 THEN 0
  ELSE IF a[i] > b[i] THEN 1
  ELSE IF a[i] < b[i] THEN -1
  ELSE LCmpAt(a, b, i - 1)

LCmp(a, b) ==
  IF Len(a) > Len(b) THEN 1
  ELSE IF Len(a) < Len(b) THEN -1
  ELSE LCmpAt(a, b, Len(a))

\* a * d for one limb d
RECURSIVE LMulSmallC(_, _, _, _)
LMulSmallC(a, d, i, c) ==
  IF i > Len(a)
  THEN (IF c > 0 THEN <<c>> ELSE <<>>)
  ELSE LET s == a[i] * d + c
       IN  <<s % Base>> \o LMulSmallC(a, d, i + 1, s \div Base)

LMulSmall(a, d) == IF d = 0 THEN <<>> ELSE LMulSmallC(a, d, 1, 0)

LShlLimbs(a, n) == IF a = <<>> \/ n = 0 THEN a ELSE [i \in 1..n |-> 0] \o a

RECURSIVE LMulAt(_, _, _)
LMulAt(a, b, i) ==
  IF i > Len(b) THEN <<>>
  ELSE LAdd(LShlLimbs(LMulSmall(a, b[i]), i - 1), LMulAt(a, b, i + 1))

LMul(a, b) == IF a = <<>> THEN <<>> ELSE LMulAt(a, b, 1)

\* long division of a by a positive integer n < 2^15, from the top limb
\* down: quotient limbs (top first) and remainder
RECURSIVE LDivAt(_, _, _, _)
LDivAt(a, n, i, rem) ==
  IF i = 0 THEN [q |-> <<>>, r |-> rem]
  ELSE LET cur  == rem * Base + a[i]
           rest == LDivAt(a, n, i - 1, cur % n)
       IN  [q |-> <<cur \div n>> \o rest.q, r |-> rest.r]

LDivSmall(a, n) ==
  LET d == LDivAt(a, n, Len(a), 0)
      k == Len(d.q)
  IN  [q |-> LNorm([i \in 1..k |-> d.q[k + 1 - i]]), r |-> d.r]

\* a * 2^n
LShlBits(a, n) ==
  LET k  == n % LimbBits
      lo == 2 ^ (LimbBits - k)
      hi == 2 ^ k
      r  == [i \in 1..(Len(a) + 1) |->
               (LLimb(a, i) % lo) * hi + (IF i = 1 THEN 0 ELSE a[i - 1] \div lo)]
  IN  IF a = <<>> THEN <<>>
      ELSE LShlLimbs(IF r[Len(a) + 1] = 0 THEN SubSeq(r, 1, Len(a)) ELSE r,
                     n \div LimbBits)

\* floor(a / 2^n)
LShrBits(a, n) ==
  LET w  == n \div LimbBits
      k  == n % LimbBits
      lo == 2 ^ k
      hi == 2 ^ (LimbBits - k)
      r  == [i \in 1..(Len(a) - w) |->
               a[i + w] \div lo + (LLimb(a, i + w + 1) % lo) * hi]
  IN  IF w >= Len(a) THEN <<>>
      ELSE IF r[Len(a) - w] = 0 THEN SubSeq(r, 1, Len(a) - w - 1) ELSE r

\* number of bits of one limb
IntBitLen(n) ==
  IF n < 128
  THEN (IF n < 8 THEN (IF n < 2 THEN n ELSE IF n < 4 THEN 2 ELSE 3)
        ELSE IF n < 16 THEN 4 ELSE IF n < 32 THEN 5 ELSE IF n < 64 THEN 6 ELSE 7)
  ELSE IF n < 2048
  THEN (IF n < 256 THEN 8 ELSE IF n < 512 THEN 9 ELSE IF n < 1024 THEN 10 ELSE 11)
  ELSE IF n < 4096 THEN 12 ELSE IF n < 8192 THEN 13 ELSE IF n < 16384 THEN 14 ELSE 15

\* number of bits of a (without leading zeros)
LBitLen(a) ==
  IF a = <<>> THEN 0 ELSE (Len(a) - 1) * LimbBits + IntBitLen(a[Len(a)])

\* bit i of a, counted from 1 at the low end
LBit(a, i) ==
  (LLimb(a, (i - 1) \div LimbBits + 1) \div (2 ^ ((i - 1) % LimbBits))) % 2

\* TRUE iff one of the low n bits of a is set
LLowBitsSet(a, n) ==
  \/ \E i \in 1..(n \div LimbBits) : LLimb(a, i) /= 0
  \/ LLimb(a, n \div LimbBits + 1) % (2 ^ (n % LimbBits)) /= 0

(***************************************************************************)
(* binary64 values.  A finite value is (-1)^neg * m * 2^e, kept canonical:   *)
(* m has exactly 53 bits (or is empty for zero).                           *)
(***************************************************************************)
MantissaBits == 53

DNaN == [cls |-> "nan", neg |-> FALSE, m |-> <<>>, e |-> 0]
DInf(neg) == [cls |-> "inf", neg |-> neg, m |-> <<>>, e |-> 0]
DZero == [cls |-> "fin", neg |-> FALSE, m |-> <<>>, e |-> 0]

\* the binary64 nearest to (-1)^neg * m * 2^e, ties to even
DRound(neg, m, e) ==
  LET n == LNorm(m)
      s == LBitLen(n) - MantissaBits
  IN  IF n = <<>> THEN DZero
      ELSE IF s <= 0
      THEN [cls |-> "fin", neg |-> neg, m |-> LShlBits(n, -s), e |-> e + s]
      ELSE LET q   == LShrBits(n, s)
               up  == LBit(n, s) = 1 /\ (LLowBitsSet(n, s - 1) \/ q[1] % 2 = 1)
               r   == IF up THEN LAdd(q, <<1>>) ELSE q
           IN  IF LBitLen(r) > MantissaBits
               THEN [cls |-> "fin", neg |-> neg, m |-> LShrBits(r, 1), e |-> e + s + 1]
               ELSE [cls |-> "fin", neg |-> neg, m |-> r, e |-> e + s]

DIsFinite(a) == a.cls = "fin"
DIsNaN(a) == a.cls = "nan"
DIsInf(a) == a.cls = "inf"
DIsZero(a) == a.cls = "fin" /\ a.m = <<>>

\* conversion of an integer (|n| < 2^31) to double: exact
DFromInt(n) == DRound(n < 0, NatToL(IF n < 0 THEN -n ELSE n), 0)

DNeg(a) == IF DIsZero(a) \/ DIsNaN(a) THEN a ELSE [a EXCEPT !.neg = ~a.neg]

\* a + b for finite a, b
DAdd(a, b) ==
  LET e0 == IF a.e <= b.e THEN a.e ELSE b.e
      ma == LShlBits(a.m, a.e - e0)
      mb == LShlBits(b.m, b.e - e0)
      c  == LCmp(ma, mb)
  IN  IF DIsZero(a) THEN b
      ELSE IF DIsZero(b) THEN a
      ELSE IF a.neg = b.neg THEN DRound(a.neg, LAdd(ma, mb), e0)
      ELSE IF c = 0 THEN DZero
      ELSE IF c > 0 THEN DRound(a.neg, LSub(ma, mb), e0)
      ELSE DRound(b.neg, LSub(mb, ma), e0)

DSub(a, b) == DAdd(a, DNeg(b))

\* a * b for finite a, b
DMul(a, b) == DRound(a.neg /= b.neg, LMul(a.m, b.m), a.e + b.e)

\* floor division of the limbs a by each factor of fs in turn, with the
\* remainders collected in one sticky flag
RECURSIVE LDivSeq(_, _, _)
LDivSeq(a, fs, sticky) ==
  IF fs = <<>> THEN [q |-> a, sticky |-> sticky]
  ELSE LET d == LDivSmall(a, Head(fs))
       IN  LDivSeq(d.q, Tail(fs), sticky \/ d.r /= 0)

\* a / (fs[1] * ... * fs[n]) for finite a and integer factors in 1..2^15-1,
\* rounded once
DivGuardBits == 90
DDivSeq(a, fs) ==
  LET d == LDivSeq(LShlBits(a.m, DivGuardBits), fs, FALSE)
  IN  IF DIsZero(a) THEN DZero
      ELSE DRound(a.neg, LAdd(LMulSmall(d.q, 2), IF d.sticky THEN <<1>> ELSE <<>>),
                  a.e - DivGuardBits - 1)

\* a / n for finite a and an integer n in 1..2^15-1 (n converts exactly)
DDivNat(a, n) == DDivSeq(a, <<n>>)

\* a < b as C++ compares doubles: false when either is NaN
DLess(a, b) ==
  IF DIsNaN(a) \/ DIsNaN(b) THEN FALSE
  ELSE IF DIsInf(a) THEN a.neg /\ ~(DIsInf(b) /\ b.neg)
  ELSE IF DIsInf(b) THEN ~b.neg
  ELSE IF DIsZero(a) THEN ~DIsZero(b) /\ ~b.neg
  ELSE IF DIsZero(b) THEN a.neg
  ELSE IF a.neg /= b.neg THEN a.neg
  ELSE LET c == IF a.e /= b.e THEN (IF a.e < b.e THEN -1 ELSE 1)
                ELSE LCmp(a.m, b.m)
       IN  IF a.neg THEN c > 0 ELSE c < 0

DGreater(a, b) == DLess(b, a)

\* a >= b as C++ compares doubles: false when either is NaN
DGeq(a, b) == ~DIsNaN(a) /\ ~DIsNaN(b) /\ ~DLess(a, b)

\* conversion of a finite double to long: truncation toward zero
\* (the magnitudes of the model stay below 2^31)
DToLong(a) ==
  LET mag == LToNat(IF a.e >= 0 THEN LShlBits(a.m, a.e) ELSE LShrBits(a.m, -a.e))
  IN  IF a.neg THEN -mag ELSE mag

(***************************************************************************)
(* Bounds of the model and the inputs drawn by the operations.              *)
(***************************************************************************)
\* sleep() is not called more than MaxCycles times between two resets
MaxCycles == 2
\* no operation starts once the clock has reached MaxSec seconds
MaxSec == 1
\* the configuration is not touched more than MaxConfigCalls times in all
\* (calls of the setters and moves of the object)
MaxConfigCalls == 1
\* clock_nanosleep is not interrupted more than MaxSignals times in all
MaxSignals == 1
\* calls of Nodewrap::stop(), direct or through signalHandler
MaxStops == 2

NSecPerSec == 1000000000
\* NSecPerSec_ converted to double
NSecPerSecD == DFromInt(NSecPerSec)

\* the double nearest to k * 10^-9: what the literal of a time of k
\* nanoseconds, written in seconds, converts to
DFromNs(k) == DDivSeq(DFromInt(k), <<1000, 1000, 1000>>)

\* 1.0 / NSecPerSec_
SecPerNSec == DFromNs(1)

\* time steps a caller passes, in whole nanoseconds
StepNs == {0, 500000000, 500353286}
\* thresholds a caller passes, in whole nanoseconds
LimitNs == {0, 400000000}

TimeStepArgs ==
  {DFromNs(k) : k \in StepNs} \cup {DNeg(DFromNs(500000000)), DNaN, DInf(FALSE)}
MaxTimeStepArgs ==
  {DFromNs(k) : k \in LimitNs} \cup {DNeg(DFromNs(400000000)), DNaN, DInf(FALSE)}

\* arguments of the six-argument constructor
CtorArgs ==
  { <<DFromNs(500000000), DFromNs(400000000), DFromNs(0), FALSE, "CLOCK_MONOTONIC">>,
    <<DFromNs(500000000), DFromNs(0), DFromNs(400000000), TRUE, "CLOCK_REALTIME">>,
    <<DFromNs(0), DFromNs(0), DFromNs(400000000), FALSE, "CLOCK_REALTIME">> }

Timespec(s, ns) == [tv_sec |-> s, tv_nsec |-> ns]

\* readings of the clock at construction
StartTimes == {Timespec(0, 0)}
\* time the caller's work takes between two sleep() calls, in nanoseconds
WorkNs == {400000000}
\* time between the two clock samples of one sleep() call, in nanoseconds
InCallNs == {0, 200000000}
\* what an uninitialised timespec member may hold
Indeterminate == {Timespec(0, 0), Timespec(1, 0)}

NoTime == Timespec(-1, 0)
NoDiag == [level |-> "none", shown |-> <<>>]

(***************************************************************************)
(* The state: the fields of a Rate object, the clock it reads, and a record *)
(* of the last call (its argument, the clock sample it took, the instant    *)
(* it passed to clock_nanosleep, the diagnostic it printed); then the       *)
(* position of a sleep() call taken step by step, and the Nodewrap.         *)
(***************************************************************************)
VARIABLES
  timeStep,            \* timeStep_
  maxTimeStepWarning,  \* maxTimeStepWarning_
  maxTimeStepError,    \* maxTimeStepError_
  enforceRate,         \* enforceRate_
  clockId,             \* clockId_
  sleepStartTime,      \* sleepStartTime_
  sleepEndTime,        \* sleepEndTime_
  stepTime,            \* stepTime_
  numTimeSteps,        \* numTimeSteps_
  numWarnings,         \* numWarnings_
  numErrors,           \* numErrors_
  awakeTime,           \* awakeTime_
  awakeTimeMean,       \* awakeTimeMean_
  awakeTimeM2,         \* awakeTimeM2_
  clock,               \* the reading clock_gettime(clockId_) would return now
  call,                \* the last call made on the object
  anchor,              \* the clock sample of the last reset()
  fixedStep,           \* timeStep_ has not changed since the last reset()
  onSchedule,          \* no sleep() since the last reset() was behind schedule
  nConfig,             \* number of setter calls and moves made
  nSignal,             \* number of interrupted waits
  thread,              \* the position of a sleep() call that runs beside the setters
  node                 \* the Nodewrap that owns the process: execute() and stop()

config == <<timeStep, maxTimeStepWarning, maxTimeStepError, enforceRate, clockId>>
schedule == <<sleepStartTime, sleepEndTime, stepTime>>
stats == <<numTimeSteps, numWarnings, numErrors, awakeTime, awakeTimeMean, awakeTimeM2>>
history == <<anchor, fixedStep, onSchedule>>
budget == <<nConfig, nSignal>>
ext == <<thread, node>>
vars == <<config, schedule, stats, clock, call, history, budget, ext>>

Call(op, arg, sample, wait, diag) ==
  [op |-> op, arg |-> arg, sample |-> sample, wait |-> wait, diag |-> diag]

(***************************************************************************)
(* Static helpers of Rate.                                                  *)
(***************************************************************************)
GetDuration(start, end) ==
  DAdd(DFromInt(end.tv_sec - start.tv_sec),
       DMul(DFromInt(end.tv_nsec - start.tv_nsec), SecPerNSec))

\* variant: the test for infinity is missing
TimeStepIsValidNoInf(v) ==
  DGeq(v, DZero) /\ ~DIsNaN(v)

TimeStepIsValid(v) ==
  DGeq(v, DZero) /\ ~DIsInf(v) /\ ~DIsNaN(v)

\* variant: the test of the sign is missing
MaxTimeStepIsValidNoSign(v) ==
  ~DIsNaN(v)

MaxTimeStepIsValid(v) ==
  DGeq(v, DZero) /\ ~DIsNaN(v)

\* the timespec ts moved on by ns nanoseconds (ns >= 0)
TsPlusNs(ts, ns) ==
  Timespec(ts.tv_sec + (ts.tv_nsec + ns) \div NSecPerSec,
           (ts.tv_nsec + ns) % NSecPerSec)

\* variant: the nanoseconds are rounded up past the sum
NextStepTimeCeil(st, ts) ==
  LET nsec == DToLong(DAdd(DFromInt(st.tv_nsec), DMul(ts, NSecPerSecD))) + 1
  IN  Timespec(st.tv_sec + nsec \div NSecPerSec, nsec % NSecPerSec)

\* variant: the time step is subtracted
NextStepTimeMinus(st, ts) ==
  LET nsec == DToLong(DSub(DFromInt(st.tv_nsec), DMul(ts, NSecPerSecD)))
  IN  Timespec(st.tv_sec + nsec \div NSecPerSec, nsec % NSecPerSec)

\* stepTime_ after the three statements that add timeStep_ to it
NextStepTime(st, ts) ==
  LET nsec == DToLong(DAdd(DFromInt(st.tv_nsec), DMul(ts, NSecPerSecD)))
  IN  Timespec(st.tv_sec + nsec \div NSecPerSec, nsec % NSecPerSec)

\* variant: the warning threshold is tested first
AwakeCountsWarnFirst(awake, warnLimit, errorLimit) ==
  IF DGreater(awake, warnLimit) THEN [errors |-> 0, warnings |-> 1]
  ELSE IF DGreater(awake, errorLimit) THEN [errors |-> 1, warnings |-> 0]
  ELSE [errors |-> 0, warnings |-> 0]

\* variant: the two thresholds are tested independently
AwakeCountsBoth(awake, warnLimit, errorLimit) ==
  [errors   |-> IF DGreater(awake, errorLimit) THEN 1 ELSE 0,
   warnings |-> IF DGreater(awake, warnLimit) THEN 1 ELSE 0]

\* what the threshold check of sleep() adds to numErrors_ and numWarnings_
AwakeCounts(awake, warnLimit, errorLimit) ==
  IF DGreater(awake, errorLimit) THEN [errors |-> 1, warnings |-> 0]
  ELSE IF DGreater(awake, warnLimit) THEN [errors |-> 0, warnings |-> 1]
  ELSE [errors |-> 0, warnings |-> 0]

\* variant: a step time equal to the clock sample counts as behind
IsBehindOrEqual(now, step) == ~DGreater(GetDuration(now, step), DZero)

\* isBehind: the step time lies before the second clock sample of sleep()
IsBehind(now, step) == DLess(GetDuration(now, step), DZero)

\* variant: the step time is always moved to now
BehindStepTimeSnap(enforce, step, now) == now

\* variant: the step time is never moved to now
BehindStepTimeKeep(enforce, step, now) == step

\* stepTime_ at the end of a sleep() that is behind schedule
BehindStepTime(enforce, step, now) == IF ~enforce THEN now ELSE step

(***************************************************************************)
(* The accessors of the statistics.                                        *)
(***************************************************************************)
\* variant: the test of numTimeSteps_ is missing
getAwakeTimeUngated == awakeTime

getAwakeTime == IF numTimeSteps = 0 THEN DNaN ELSE awakeTime

getAwakeTimeMean == IF numTimeSteps = 0 THEN DNaN ELSE awakeTimeMean

getAwakeTimeVar ==
  IF numTimeSteps <= 1 THEN DNaN ELSE DDivNat(awakeTimeM2, numTimeSteps - 1)

(***************************************************************************)
(* Construction.  Both constructors run the four setters and then reset();  *)
(* the arguments drawn here are valid ones (what the fields hold after a    *)
(* rejected argument depends on their declaration in Rate.hpp).            *)
(***************************************************************************)
ResetState(now) ==
  /\ numTimeSteps = 0
  /\ numWarnings = 0
  /\ numErrors = 0
  /\ awakeTime = DZero
  /\ awakeTimeMean = DZero
  /\ awakeTimeM2 = DZero
  /\ sleepStartTime = now
  /\ sleepEndTime = now
  /\ stepTime = now

\* Rate(name, timeStep, maxTimeStepWarning, maxTimeStepError, enforceRate, clockId)
Construct(ts, warn, err, enforce, cid, now) ==
  /\ timeStep = ts
  /\ maxTimeStepWarning = warn
  /\ maxTimeStepError = err
  /\ enforceRate = enforce
  /\ clockId = cid
  /\ ResetState(now)
  /\ clock = now
  /\ call = Call("Rate", ts, now, NoTime, NoDiag)
  /\ anchor = now
  /\ fixedStep = TRUE
  /\ onSchedule = TRUE
  /\ nConfig = 0
  /\ nSignal = 0

\* Rate(name, timeStep)
ConstructDefault(ts, now) ==
  Construct(ts, ts, DMul(DFromInt(10), ts), TRUE, "CLOCK_MONOTONIC", now)

\* no sleep() call is in progress
ThreadIdle ==
  [pc |-> "idle", step0 |-> NoTime, advanced |-> NoTime, errors0 |-> 0,
   warnings0 |-> 0, timeSteps |-> {}, enforceRates |-> {}, sample |-> NoTime,
   diag |-> NoDiag]

\* Nodewrap(argc, argv, nodeName, numSpinners, installSignalHandler)
NodeConstructed(install) ==
  [signalHandlerInstalled |-> install, running |-> FALSE, mutexRunning |-> "free",
   notified |-> FALSE, bound |-> FALSE, pc |-> "execute", initSuccess |-> FALSE,
   returned |-> FALSE, result |-> FALSE, log |-> <<>>, stopPc |-> "idle",
   signum |-> "none", nStops |-> 0, stopCalled |-> FALSE]

Init ==
  /\ \E now \in StartTimes :
       \E ts \in {v \in TimeStepArgs : TimeStepIsValid(v)} :
         \/ ConstructDefault(ts, now)
         \/ \E a \in CtorArgs : a[1] = ts /\ Construct(a[1], a[2], a[3], a[4], a[5], now)
  /\ thread = ThreadIdle
  /\ node = NodeConstructed(TRUE)

(***************************************************************************)
(* The setters.                                                            *)
(***************************************************************************)
SetTimeStep(v) ==
  /\ clock.tv_sec < MaxSec
  /\ nConfig < MaxConfigCalls
  /\ nConfig' = nConfig + 1
  /\ UNCHANGED nSignal
  /\ IF ~TimeStepIsValid(v)
     THEN /\ call' = Call("setTimeStep", v, NoTime, NoTime,
                          [level |-> "error", shown |-> <<v>>])
          /\ UNCHANGED <<timeStep, fixedStep>>
     ELSE /\ timeStep' = v
          /\ fixedStep' = (fixedStep /\ v = timeStep)
          /\ call' = Call("setTimeStep", v, NoTime, NoTime, NoDiag)
  /\ UNCHANGED <<maxTimeStepWarning, maxTimeStepError, enforceRate, clockId,
                 schedule, stats, clock, anchor, onSchedule>>
  /\ UNCHANGED ext

SetMaxTimeStepWarning(v) ==
  /\ clock.tv_sec < MaxSec
  /\ nConfig < MaxConfigCalls
  /\ nConfig' = nConfig + 1
  /\ UNCHANGED nSignal
  /\ IF ~MaxTimeStepIsValid(v)
     THEN /\ call' = Call("setMaxTimeStepWarning", v, NoTime, NoTime,
                          [level |-> "error", shown |-> <<v>>])
          /\ UNCHANGED maxTimeStepWarning
     ELSE /\ maxTimeStepWarning' = v
          /\ call' = Call("setMaxTimeStepWarning", v, NoTime, NoTime, NoDiag)
  /\ UNCHANGED <<timeStep, maxTimeStepError, enforceRate, clockId,
                 schedule, stats, clock, history>>
  /\ UNCHANGED ext

SetMaxTimeStepError(v) ==
  /\ clock.tv_sec < MaxSec
  /\ nConfig < MaxConfigCalls
  /\ nConfig' = nConfig + 1
  /\ UNCHANGED nSignal
  /\ IF ~MaxTimeStepIsValid(v)
     THEN /\ call' = Call("setMaxTimeStepError", v, NoTime, NoTime,
                          [level |-> "error", shown |-> <<v>>])
          /\ UNCHANGED maxTimeStepError
     ELSE /\ maxTimeStepError' = v
          /\ call' = Call("setMaxTimeStepError", v, NoTime, NoTime, NoDiag)
  /\ UNCHANGED <<timeStep, maxTimeStepWarning, enforceRate, clockId,
                 schedule, stats, clock, history>>
  /\ UNCHANGED ext

SetEnforceRate(b) ==
  /\ clock.tv_sec < MaxSec
  /\ nConfig < MaxConfigCalls
  /\ nConfig' = nConfig + 1
  /\ UNCHANGED nSignal
  /\ enforceRate' = b
  /\ call' = Call("setEnforceRate", DZero, NoTime, NoTime, NoDiag)
  /\ UNCHANGED <<timeStep, maxTimeStepWarning, maxTimeStepError, clockId,
                 schedule, stats, clock, history>>
  /\ UNCHANGED ext

(***************************************************************************)
(* reset()                                                                 *)
(***************************************************************************)
\* variant: numErrors_ is not cleared
ResetKeepsErrors ==
  /\ clock.tv_sec < MaxSec
  /\ numTimeSteps' = 0
  /\ numWarnings' = 0
  /\ awakeTime' = DZero
  /\ awakeTimeMean' = DZero
  /\ awakeTimeM2' = DZero
  /\ sleepStartTime' = clock
  /\ sleepEndTime' = clock
  /\ stepTime' = clock
  /\ call' = Call("reset", DZero, clock, NoTime, NoDiag)
  /\ anchor' = clock
  /\ fixedStep' = TRUE
  /\ onSchedule' = TRUE
  /\ UNCHANGED <<config, clock, budget, numErrors>>
  /\ UNCHANGED ext

Reset ==
  /\ clock.tv_sec < MaxSec
  /\ numTimeSteps' = 0
  /\ numWarnings' = 0
  /\ numErrors' = 0
  /\ awakeTime' = DZero
  /\ awakeTimeMean' = DZero
  /\ awakeTimeM2' = DZero
  /\ sleepStartTime' = clock
  /\ sleepEndTime' = clock
  /\ stepTime' = clock
  /\ call' = Call("reset", DZero, clock, NoTime, NoDiag)
  /\ anchor' = clock
  /\ fixedStep' = TRUE
  /\ onSchedule' = TRUE
  /\ UNCHANGED <<config, clock, budget>>
  /\ UNCHANGED ext

(***************************************************************************)
(* sleep().  d is the time that passes between its two clock samples;       *)
(* intr says that a signal handler interrupts clock_nanosleep, which then   *)
(* returns before the instant it was given (the return value is ignored).   *)
(* The counters are unsigned int; MaxCycles keeps them far from wrapping.   *)
(***************************************************************************)
Sleep ==
  LET now1   == clock
      awake  == GetDuration(sleepEndTime, now1)
      n      == numTimeSteps + 1
      delta  == DSub(awake, awakeTimeMean)
      mean   == DAdd(awakeTimeMean, DDivNat(delta, n))
      delta2 == DSub(awake, mean)
      counts == AwakeCounts(awake, maxTimeStepWarning, maxTimeStepError)
      step   == NextStepTime(stepTime, timeStep)
      diag   == IF counts.errors > 0
                THEN [level |-> "error", shown |-> <<awake, timeStep>>]
                ELSE IF counts.warnings > 0
                THEN [level |-> "warn", shown |-> <<awake, timeStep>>]
                ELSE NoDiag
  IN  /\ clock.tv_sec < MaxSec
      /\ numTimeSteps < MaxCycles
      /\ sleepStartTime' = now1
      /\ awakeTime' = awake
      /\ numTimeSteps' = n
      /\ awakeTimeMean' = mean
      /\ awakeTimeM2' = DAdd(awakeTimeM2, DMul(delta, delta2))
      /\ numErrors' = numErrors + counts.errors
      /\ numWarnings' = numWarnings + counts.warnings
      /\ \E d \in InCallNs, intr \in BOOLEAN :
           LET now2     == TsPlusNs(clock, d)
               isBehind == IsBehind(now2, step)
           IN  /\ IF isBehind
                  THEN /\ ~intr
                       /\ stepTime' = BehindStepTime(enforceRate, step, now2)
                       /\ sleepEndTime' = now2
                       /\ clock' = now2
                       /\ call' = Call("sleep", DZero, now2, NoTime, diag)
                  ELSE /\ intr => (step /= now2 /\ nSignal < MaxSignals)
                       /\ stepTime' = step
                       /\ sleepEndTime' = step
                       /\ clock' = IF intr THEN now2 ELSE step
                       /\ call' = Call("sleep", DZero, now2, step, diag)
               /\ onSchedule' = (onSchedule /\ ~isBehind)
               /\ nSignal' = IF intr THEN nSignal + 1 ELSE nSignal
      /\ UNCHANGED <<config, anchor, fixedStep, nConfig>>
      /\ UNCHANGED ext

(***************************************************************************)
(* Rate(Rate&&): the object is replaced by one move-constructed from it.    *)
(* sleepStartTime_ and sleepEndTime_ are not in the initialiser list.       *)
(***************************************************************************)
MoveConstruct(s, e) ==
  /\ clock.tv_sec < MaxSec
  /\ nConfig < MaxConfigCalls
  /\ nConfig' = nConfig + 1
  /\ UNCHANGED nSignal
  /\ sleepStartTime' = s
  /\ sleepEndTime' = e
  /\ call' = Call("Rate(Rate&&)", DZero, NoTime, NoTime, NoDiag)
  /\ UNCHANGED <<config, stepTime, stats, clock, history>>
  /\ UNCHANGED ext

(***************************************************************************)
(* The caller's work between two calls: time passes.                        *)
(***************************************************************************)
Work(d) ==
  /\ clock.tv_sec < MaxSec
  /\ clock' = TsPlusNs(clock, d)
  /\ call' = Call("work", DZero, NoTime, NoTime, NoDiag)
  /\ UNCHANGED <<config, schedule, stats, history, budget>>
  /\ UNCHANGED ext

Next ==
  \/ \E v \in TimeStepArgs : SetTimeStep(v)
  \/ \E v \in MaxTimeStepArgs : SetMaxTimeStepWarning(v)
  \/ \E v \in MaxTimeStepArgs : SetMaxTimeStepError(v)
  \/ \E b \in BOOLEAN : SetEnforceRate(b)
  \/ Reset
  \/ Sleep
  \/ \E s, e \in Indeterminate : MoveConstruct(s, e)
  \/ \E d \in WorkNs : Work(d)

Spec == Init /\ [][Next]_vars

(***************************************************************************)
(* sleep() while a second context calls the setters.  timeStep_,            *)
(* maxTimeStepWarning_, maxTimeStepError_ and enforceRate_ are atomics: a   *)
(* setter is one store, and sleep() is the sequence of its loads, each a    *)
(* step of its own.  The other members are touched by sleep() alone.        *)
(* thread holds the position of the call and what it has seen: the step     *)
(* time at entry and after the advance, the counters at entry, and the      *)
(* values timeStep_ and enforceRate_ held at each of its steps.              *)
(***************************************************************************)
\* variant: the warning test is not in an else-branch
AfterErrorCheckFallThrough(exceeded) == "checkWarning"

\* where sleep() goes after `if (awakeTime_ > maxTimeStepError_)`
AfterErrorCheck(exceeded) == IF exceeded THEN "advance" ELSE "checkWarning"

\* the values the atomics hold when the call takes a step join those it has seen
Seen(t) ==
  [t EXCEPT !.timeSteps = @ \cup {timeStep},
            !.enforceRates = @ \cup {enforceRate}]

\* lines 168-177: the first clock sample, the awake time, the statistics
SleepEnter ==
  LET awake  == GetDuration(sleepEndTime, clock)
      n      == numTimeSteps + 1
      delta  == DSub(awake, awakeTimeMean)
      mean   == DAdd(awakeTimeMean, DDivNat(delta, n))
      delta2 == DSub(awake, mean)
  IN  /\ thread.pc = "idle"
      /\ clock.tv_sec < MaxSec
      /\ numTimeSteps < MaxCycles
      /\ sleepStartTime' = clock
      /\ awakeTime' = awake
      /\ numTimeSteps' = n
      /\ awakeTimeMean' = mean
      /\ awakeTimeM2' = DAdd(awakeTimeM2, DMul(delta, delta2))
      /\ thread' = [pc |-> "checkError", step0 |-> stepTime, advanced |-> NoTime,
                    errors0 |-> numErrors, warnings0 |-> numWarnings,
                    timeSteps |-> {timeStep}, enforceRates |-> {enforceRate},
                    sample |-> NoTime, diag |-> NoDiag]
      /\ UNCHANGED <<config, sleepEndTime, stepTime, numWarnings, numErrors,
                     clock, call, history, budget, node>>

\* lines 180-184: one load of maxTimeStepError_
SleepCheckError ==
  LET exceeded == DGreater(awakeTime, maxTimeStepError)
  IN  /\ thread.pc = "checkError"
      /\ numErrors' = IF exceeded THEN numErrors + 1 ELSE numErrors
      /\ thread' = [Seen(thread) EXCEPT
                      !.pc = AfterErrorCheck(exceeded),
                      !.diag = IF exceeded
                               THEN [level |-> "error", shown |-> <<awakeTime, timeStep>>]
                               ELSE @]
      /\ UNCHANGED <<config, schedule, numTimeSteps, numWarnings, awakeTime,
                     awakeTimeMean, awakeTimeM2, clock, call, history, budget, node>>

\* lines 185-189: one load of maxTimeStepWarning_
SleepCheckWarning ==
  LET exceeded == DGreater(awakeTime, maxTimeStepWarning)
  IN  /\ thread.pc = "checkWarning"
      /\ numWarnings' = IF exceeded THEN numWarnings + 1 ELSE numWarnings
      /\ thread' = [Seen(thread) EXCEPT
                      !.pc = "advance",
                      !.diag = IF exceeded
                               THEN [level |-> "warn", shown |-> <<awakeTime, timeStep>>]
                               ELSE @]
      /\ UNCHANGED <<config, schedule, numTimeSteps, numErrors, awakeTime,
                     awakeTimeMean, awakeTimeM2, clock, call, history, budget, node>>

\* lines 193-195: one load of timeStep_
SleepAdvance ==
  /\ thread.pc = "advance"
  /\ stepTime' = NextStepTime(stepTime, timeStep)
  /\ thread' = [Seen(thread) EXCEPT !.pc = "sample", !.advanced = stepTime']
  /\ UNCHANGED <<config, sleepStartTime, sleepEndTime, stats, clock, call,
                 history, budget, node>>

\* lines 198-200: the second clock sample, d after the first
SleepSample(d) ==
  LET now2     == TsPlusNs(clock, d)
      isBehind == IsBehind(now2, stepTime)
  IN  /\ thread.pc = "sample"
      /\ sleepEndTime' = now2
      /\ clock' = now2
      /\ onSchedule' = (onSchedule /\ ~isBehind)
      /\ thread' = [Seen(thread) EXCEPT !.pc = IF isBehind THEN "behind" ELSE "wait",
                                  !.sample = now2]
      /\ UNCHANGED <<config, sleepStartTime, stepTime, stats, call, anchor,
                     fixedStep, budget, node>>

\* lines 201-205: one load of enforceRate_
SleepBehind ==
  /\ thread.pc = "behind"
  /\ stepTime' = BehindStepTime(enforceRate, stepTime, sleepEndTime)
  /\ call' = Call("sleep", DZero, thread.sample, NoTime, thread.diag)
  /\ thread' = [Seen(thread) EXCEPT !.pc = "idle"]
  /\ UNCHANGED <<config, sleepStartTime, sleepEndTime, stats, clock, history,
                 budget, node>>

\* lines 209-212: the wait until the step time
SleepWait ==
  /\ thread.pc = "wait"
  /\ sleepEndTime' = stepTime
  /\ clock' = stepTime
  /\ call' = Call("sleep", DZero, thread.sample, stepTime, thread.diag)
  /\ thread' = [Seen(thread) EXCEPT !.pc = "idle"]
  /\ UNCHANGED <<config, sleepStartTime, stepTime, stats, history, budget, node>>

NextConc ==
  \/ \E v \in TimeStepArgs : SetTimeStep(v)
  \/ \E v \in MaxTimeStepArgs : SetMaxTimeStepWarning(v)
  \/ \E v \in MaxTimeStepArgs : SetMaxTimeStepError(v)
  \/ \E b \in BOOLEAN : SetEnforceRate(b)
  \/ SleepEnter
  \/ SleepCheckError
  \/ SleepCheckWarning
  \/ SleepAdvance
  \/ \E d \in InCallNs : SleepSample(d)
  \/ SleepBehind
  \/ SleepWait
  \/ \E d \in WorkNs : thread.pc = "idle" /\ Work(d)

SpecConc == Init /\ [][NextConc]_vars

(***************************************************************************)
(* Nodewrap.  The main thread runs execute(): init(), run() if init()       *)
(* succeeded, cleanup().  A second context calls stop(), directly or as     *)
(* signalHandler(signum) while the handler is bound.  node holds running_,  *)
(* the owner of mutexRunning_, whether a notify_all of cvRunning_ is        *)
(* pending for the waiting main thread, the position of each context, the   *)
(* calls made so far (log) and what execute() returned.                     *)
(***************************************************************************)
rate == <<config, schedule, stats, clock, call, history, budget>>

\* signalHandler is called for these; "stop" is a direct call of stop()
StopKinds == {"stop", "SIGINT", "SIGSEGV"}

\* variant: run() is called whatever init() returned
AfterInitAlwaysRun(initSuccess) == "run"

\* execute(), lines 80-83: if (initSuccess) { run(); } cleanup();
AfterInit(initSuccess) == IF initSuccess THEN "run" ELSE "cleanup"

Logged(n, event) == [n EXCEPT !.log = Append(@, event)]

\* init(), lines 91-93
InitBind ==
  /\ node.pc = "execute"
  /\ node' = [Logged(node, "init") EXCEPT !.pc = "initImpl",
                                          !.bound = node.signalHandlerInstalled]
  /\ UNCHANGED <<rate, thread>>

\* init(), lines 95-103: ok is what impl_->init() returns
InitImpl(ok) ==
  /\ node.pc = "initImpl"
  /\ node' = IF ok
             THEN [node EXCEPT !.pc = "setRunning"]
             ELSE [node EXCEPT !.pc = AfterInit(FALSE), !.initSuccess = FALSE]
  /\ UNCHANGED <<rate, thread>>

\* init(), lines 105-106: the store is made without mutexRunning_
InitSetRunning ==
  /\ node.pc = "setRunning"
  /\ node' = [node EXCEPT !.running = TRUE, !.initSuccess = TRUE,
                          !.pc = AfterInit(TRUE)]
  /\ UNCHANGED <<rate, thread>>

\* run(), line 114
RunLock ==
  /\ node.pc = "run"
  /\ node.mutexRunning = "free"
  /\ node' = [Logged(node, "run") EXCEPT !.mutexRunning = "main", !.pc = "wait"]
  /\ UNCHANGED <<rate, thread>>

\* run(), line 115: the predicate is tested with the mutex held; wait()
\* releases the mutex and blocks in one step
RunWait ==
  /\ node.pc = "wait"
  /\ node' = [node EXCEPT !.mutexRunning = "free", !.notified = FALSE,
                          !.pc = IF ~node.running THEN "cleanup" ELSE "blocked"]
  /\ UNCHANGED <<rate, thread>>

\* run(), line 115: woken by notify_all, wait() takes the mutex again
RunWake ==
  /\ node.pc = "blocked"
  /\ node.notified
  /\ node.mutexRunning = "free"
  /\ node' = [node EXCEPT !.mutexRunning = "main", !.pc = "wait"]
  /\ UNCHANGED <<rate, thread>>

\* cleanup(), lines 122-124
CleanupUnbind ==
  /\ node.pc = "cleanup"
  /\ node' = [Logged(node, "cleanup") EXCEPT !.bound = FALSE, !.pc = "preCleanup"]
  /\ UNCHANGED <<rate, thread>>

\* cleanup(), line 126
CleanupPreCleanup ==
  /\ node.pc = "preCleanup"
  /\ node' = [Logged(node, "preCleanup") EXCEPT !.pc = "stopAllWorkers"]
  /\ UNCHANGED <<rate, thread>>

\* cleanup(), line 127
CleanupStopAllWorkers ==
  /\ node.pc = "stopAllWorkers"
  /\ node' = [Logged(node, "stopAllWorkers") EXCEPT !.pc = "spinnerStop"]
  /\ UNCHANGED <<rate, thread>>

\* cleanup(), line 128
CleanupSpinnerStop ==
  /\ node.pc = "spinnerStop"
  /\ node' = [Logged(node, "spinner.stop") EXCEPT !.pc = "implCleanup"]
  /\ UNCHANGED <<rate, thread>>

\* cleanup(), line 129
CleanupImpl ==
  /\ node.pc = "implCleanup"
  /\ node' = [Logged(node, "impl.cleanup") EXCEPT !.pc = "return"]
  /\ UNCHANGED <<rate, thread>>

\* execute(), line 84
ExecuteReturn ==
  /\ node.pc = "return"
  /\ node' = [node EXCEPT !.returned = TRUE, !.result = node.initSuccess,
                          !.pc = "done"]
  /\ UNCHANGED <<rate, thread>>

\* the second context calls stop() (line 135) or, for a signal that arrives
\* while the handler is bound, signalHandler(signum) (lines 142-148)
StopCall(kind) ==
  /\ node.stopPc = "idle"
  /\ node.pc \notin {"done", "killed"}
  /\ node.nStops < MaxStops
  /\ kind /= "stop" => node.bound
  /\ node' = [node EXCEPT !.stopPc = "lock", !.signum = kind,
                          !.nStops = @ + 1,
                          !.stopCalled = @ \/ node.pc /= "execute"]
  /\ UNCHANGED <<rate, thread>>

\* stop(), line 136
StopLock ==
  /\ node.stopPc = "lock"
  /\ node.mutexRunning = "free"
  /\ node' = [node EXCEPT !.mutexRunning = "stop", !.stopPc = "store"]
  /\ UNCHANGED <<rate, thread>>

\* stop(), line 137
StopStore ==
  /\ node.stopPc = "store"
  /\ node' = [node EXCEPT !.running = FALSE, !.stopPc = "notify"]
  /\ UNCHANGED <<rate, thread>>

\* stop(), lines 138-139: notify_all, then the lock_guard releases the mutex
StopNotify ==
  /\ node.stopPc = "notify"
  /\ node' = [node EXCEPT !.notified = (node.pc = "blocked"),
                          !.mutexRunning = "free",
                          !.stopPc = IF node.signum = "SIGSEGV" THEN "raise" ELSE "idle"]
  /\ UNCHANGED <<rate, thread>>

\* signalHandler(), lines 150-153: the default action of SIGSEGV ends the process
HandlerRaise ==
  /\ node.stopPc = "raise"
  /\ node' = [node EXCEPT !.pc = "killed", !.stopPc = "killed"]
  /\ UNCHANGED <<rate, thread>>

MainStep ==
  \/ InitBind
  \/ \E ok \in BOOLEAN : InitImpl(ok)
  \/ InitSetRunning
  \/ RunLock
  \/ RunWait
  \/ RunWake
  \/ CleanupUnbind
  \/ CleanupPreCleanup
  \/ CleanupStopAllWorkers
  \/ CleanupSpinnerStop
  \/ CleanupImpl
  \/ ExecuteReturn

StopStep ==
  \/ StopLock
  \/ StopStore
  \/ StopNotify
  \/ HandlerRaise

NextNode ==
  \/ MainStep
  \/ \E kind \in StopKinds : StopCall(kind)
  \/ StopStep

InitNode ==
  /\ ConstructDefault(DFromNs(500000000), Timespec(0, 0))
  /\ thread = ThreadIdle
  /\ \E install \in BOOLEAN : node = NodeConstructed(install)

SpecNode == InitNode /\ [][NextNode]_vars

\* both contexts are scheduled: a step of execute() or of a stop() call that
\* stays possible is taken
SpecNodeFair == SpecNode /\ WF_vars(MainStep) /\ WF_vars(StopStep)

(***************************************************************************)
(* Vocabulary of the properties.                                           *)
(***************************************************************************)
TsLess(a, b) ==
  a.tv_sec < b.tv_sec \/ (a.tv_sec = b.tv_sec /\ a.tv_nsec < b.tv_nsec)

\* the whole number of nanoseconds the caller meant by the time step d
NsOf(d) == CHOOSE k \in StepNs : DFromNs(k) = d

\* the instant n periods of k nanoseconds after ts, in integers
RECURSIVE TsPlusSteps(_, _, _)
TsPlusSteps(ts, k, n) ==
  IF n = 0 THEN ts ELSE TsPlusSteps(TsPlusNs(ts, k), k, n - 1)

\* negative, NaN or infinite
IsNegative(v) == ~DIsNaN(v) /\ v.neg
NegNaNOrInf(v) == IsNegative(v) \/ DIsNaN(v) \/ DIsInf(v)

\* the step just taken is a call of sleep()
SleepStep == call'.op = "sleep"

\* in a sleep() step: the step time after its advance lies before the clock
\* sample taken inside the call
FoundBehind == TsLess(NextStepTime(stepTime, timeStep), call'.sample)

(***************************************************************************)
(* C1: after reset() at T0, N sleep() calls that are never behind schedule, *)
(* with timeStep fixed at a whole number of nanoseconds, leave stepTime_    *)
(* exactly at T0 + N * timeStep.                                            *)
(***************************************************************************)
C1_DriftFree ==
  (fixedStep /\ onSchedule) =>
    stepTime = TsPlusSteps(anchor, NsOf(timeStep), numTimeSteps)

(***************************************************************************)
(* C2: with enforceRate, a sleep() that finds the advanced step time before *)
(* its clock sample returns without waiting and leaves the step time at     *)
(* its advanced value.                                                     *)
(***************************************************************************)
C2_EnforcedDeficitCarried ==
  [][(SleepStep /\ enforceRate /\ FoundBehind) =>
       /\ call'.wait = NoTime
       /\ clock' = call'.sample
       /\ stepTime' = NextStepTime(stepTime, timeStep)
       /\ TsLess(stepTime', call'.sample)]_vars

C2_Witness ==
  /\ call.op = "sleep"
  /\ enforceRate
  /\ call.wait = NoTime
  /\ TsLess(stepTime, call.sample)
  /\ TsLess(anchor, stepTime)

(***************************************************************************)
(* C3: without enforceRate, a sleep() that finds the advanced step time     *)
(* before its clock sample returns without waiting and sets the step time   *)
(* (and sleepEndTime_) to that sample, so that the next cycle is scheduled  *)
(* exactly one time step after that sample.                                 *)
(***************************************************************************)
C3_DeficitForgiven ==
  [][(SleepStep /\ ~enforceRate /\ FoundBehind) =>
       /\ call'.wait = NoTime
       /\ clock' = call'.sample
       /\ sleepEndTime' = call'.sample
       /\ stepTime' = call'.sample
       /\ NextStepTime(stepTime', timeStep')
            = TsPlusNs(call'.sample, NsOf(timeStep'))]_vars

\* the part of C3 that does not rest on the arithmetic of the advance
C3_SnapsToSample ==
  [][(SleepStep /\ ~enforceRate /\ FoundBehind) =>
       /\ call'.wait = NoTime
       /\ clock' = call'.sample
       /\ sleepEndTime' = call'.sample
       /\ stepTime' = call'.sample]_vars

C3_Witness ==
  /\ call.op = "sleep"
  /\ ~enforceRate
  /\ call.wait = NoTime
  /\ stepTime = call.sample
  /\ ~DIsZero(timeStep)
  /\ TsLess(TsPlusNs(anchor, NsOf(timeStep)), stepTime)

(***************************************************************************)
(* C4: the threshold check counts an awake time above the error threshold   *)
(* as an error only, one above the warning threshold alone as a warning     *)
(* only, and any other not at all, whatever the order of the thresholds.    *)
(***************************************************************************)
C4_ThresholdsExclusive ==
  [][SleepStep =>
       IF DGreater(awakeTime', maxTimeStepError)
       THEN numErrors' = numErrors + 1 /\ numWarnings' = numWarnings
       ELSE IF DGreater(awakeTime', maxTimeStepWarning)
       THEN numWarnings' = numWarnings + 1 /\ numErrors' = numErrors
       ELSE numWarnings' = numWarnings /\ numErrors' = numErrors]_vars

\* the warning threshold lies above the error threshold, the awake time above both
C4_Witness ==
  /\ call.op = "sleep"
  /\ DLess(maxTimeStepError, maxTimeStepWarning)
  /\ DGreater(awakeTime, maxTimeStepWarning)
  /\ numErrors = 1
  /\ numWarnings = 0

(***************************************************************************)
(* C5: setTimeStep with a negative, NaN or infinite argument changes        *)
(* nothing, and timeStep_ is finite and not negative in every state.        *)
(***************************************************************************)
C5_TimeStepStaysValid ==
  /\ [](DIsFinite(timeStep) /\ ~timeStep.neg)
  /\ [][(call'.op = "setTimeStep" /\ NegNaNOrInf(call'.arg)) =>
          UNCHANGED <<config, schedule, stats, clock>>]_vars

C5_Witness ==
  /\ call.op = "setTimeStep"
  /\ DIsInf(call.arg)
  /\ call.diag.level = "error"
  /\ numTimeSteps > 0

(***************************************************************************)
(* C6 as stated: setMaxTimeStepWarning and setMaxTimeStepError keep the     *)
(* previous threshold when the argument is negative, NaN or infinite.       *)
(***************************************************************************)
C6_RejectsNegNaNInf ==
  [][/\ (call'.op = "setMaxTimeStepWarning" /\ NegNaNOrInf(call'.arg)) =>
          maxTimeStepWarning' = maxTimeStepWarning
     /\ (call'.op = "setMaxTimeStepError" /\ NegNaNOrInf(call'.arg)) =>
          maxTimeStepError' = maxTimeStepError]_vars

(***************************************************************************)
(* C6 as amended: the two setters keep the previous threshold when the      *)
(* argument is negative or NaN, and store an argument of +infinity.         *)
(***************************************************************************)
C6_RejectsNegNaN ==
  [][/\ (call'.op = "setMaxTimeStepWarning" /\ (IsNegative(call'.arg) \/ DIsNaN(call'.arg))) =>
          UNCHANGED <<config, schedule, stats, clock>>
     /\ (call'.op = "setMaxTimeStepError" /\ (IsNegative(call'.arg) \/ DIsNaN(call'.arg))) =>
          UNCHANGED <<config, schedule, stats, clock>>
     /\ (call'.op = "setMaxTimeStepWarning" /\ call'.arg = DInf(FALSE)) =>
          maxTimeStepWarning' = DInf(FALSE)
     /\ (call'.op = "setMaxTimeStepError" /\ call'.arg = DInf(FALSE)) =>
          maxTimeStepError' = DInf(FALSE)]_vars

C6_Witness ==
  /\ call.op = "setMaxTimeStepError"
  /\ IsNegative(call.arg)
  /\ call.diag.level = "error"
  /\ DIsFinite(maxTimeStepError)
  /\ numTimeSteps > 0

(***************************************************************************)
(* C7: while timeStep_ is 0 since the last reset(), no sleep() waits for an *)
(* instant later than the clock sample it took, and every sleep() counts    *)
(* the cycle, records the awake time and checks the thresholds.             *)
(***************************************************************************)
C7_ZeroStepNeverBlocks ==
  [][(SleepStep /\ fixedStep /\ DIsZero(timeStep)) =>
       /\ call'.wait /= NoTime => ~TsLess(call'.sample, call'.wait)
       /\ clock' = call'.sample
       /\ numTimeSteps' = numTimeSteps + 1
       /\ sleepStartTime' = clock
       /\ awakeTime' = GetDuration(sleepEndTime, clock)
       /\ (numErrors' + numWarnings' > numErrors + numWarnings)
            <=> (\/ DGreater(awakeTime', maxTimeStepError)
                 \/ DGreater(awakeTime', maxTimeStepWarning))]_vars

\* a sleep() with a time step of 0 that called clock_nanosleep, after work
C7_Witness ==
  /\ call.op = "sleep"
  /\ fixedStep
  /\ DIsZero(timeStep)
  /\ call.wait = call.sample
  /\ numTimeSteps = 2
  /\ ~DIsZero(awakeTimeMean)

(***************************************************************************)
(* C8: no call but reset() moves stepTime_ to an earlier instant.           *)
(***************************************************************************)
C8_StepTimeNeverBackwards ==
  [][call'.op /= "reset" => ~TsLess(stepTime', stepTime)]_vars

\* a sleep() that was behind without enforceRate, after one that was on time
C8_Witness ==
  /\ call.op = "sleep"
  /\ numTimeSteps = 2
  /\ ~enforceRate
  /\ ~onSchedule
  /\ TsLess(TsPlusNs(anchor, NsOf(timeStep)), stepTime)
  /\ ~DIsZero(timeStep)

(***************************************************************************)
(* C9: between resets the three counters never decrease; a sleep() adds 1   *)
(* to numTimeSteps_ and at most 1 to numWarnings_ + numErrors_, so that     *)
(* numWarnings_ + numErrors_ <= numTimeSteps_ always.                       *)
(***************************************************************************)
C9_CountersMonotone ==
  /\ [](numWarnings + numErrors <= numTimeSteps)
  /\ [][call'.op /= "reset" =>
          /\ numTimeSteps' >= numTimeSteps
          /\ numWarnings' >= numWarnings
          /\ numErrors' >= numErrors
          /\ SleepStep =>
               /\ numTimeSteps' = numTimeSteps + 1
               /\ numWarnings' + numErrors' <= numWarnings + numErrors + 1]_vars

C9_Witness ==
  /\ call.op = "sleep"
  /\ numTimeSteps = 2
  /\ numWarnings = 1
  /\ numErrors = 1

(***************************************************************************)
(* C10 as stated: reset() and every constructor leave the three time stamps *)
(* equal and the counters and statistics zero.                              *)
(***************************************************************************)
Zeroed ==
  /\ numTimeSteps = 0
  /\ numWarnings = 0
  /\ numErrors = 0
  /\ awakeTime = DZero
  /\ awakeTimeMean = DZero
  /\ awakeTimeM2 = DZero

C10_EveryConstructorResets ==
  call.op \in {"reset", "Rate", "Rate(Rate&&)"} =>
    /\ sleepStartTime = sleepEndTime
    /\ sleepEndTime = stepTime
    /\ Zeroed

(***************************************************************************)
(* C10 as amended: reset() samples the clock once, sets the three time      *)
(* stamps to the sample, zeroes the counters and statistics and leaves the  *)
(* configuration alone; the two constructors that take a name and a time    *)
(* step end in this state.                                                  *)
(***************************************************************************)
C10_ResetState ==
  /\ [](call.op \in {"reset", "Rate"} =>
          /\ sleepStartTime = call.sample
          /\ sleepEndTime = call.sample
          /\ stepTime = call.sample
          /\ Zeroed)
  /\ [][call'.op = "reset" =>
          /\ call'.sample = clock
          /\ UNCHANGED <<config, clock>>]_vars

\* a reset() that cleared counters and moved the time stamps
C10_Witness ==
  /\ call.op = "reset"
  /\ stepTime = clock
  /\ TsLess(Timespec(0, 0), stepTime)
  /\ nSignal = 1

(***************************************************************************)
(* C11: getAwakeTime() and getAwakeTimeMean() return NaN exactly until the  *)
(* first sleep() after construction or reset(), getAwakeTimeVar() exactly   *)
(* until the second; from then on they return awakeTime_, awakeTimeMean_    *)
(* and awakeTimeM2_ / (numTimeSteps_ - 1).                                  *)
(***************************************************************************)
C11_AccessorGating ==
  /\ [](IF numTimeSteps = 0
        THEN DIsNaN(getAwakeTime) /\ DIsNaN(getAwakeTimeMean)
        ELSE /\ getAwakeTime = awakeTime /\ ~DIsNaN(getAwakeTime)
             /\ getAwakeTimeMean = awakeTimeMean /\ ~DIsNaN(getAwakeTimeMean))
  /\ [](IF numTimeSteps <= 1
        THEN DIsNaN(getAwakeTimeVar)
        ELSE /\ getAwakeTimeVar = DDivNat(awakeTimeM2, numTimeSteps - 1)
             /\ ~DIsNaN(getAwakeTimeVar))
  \* numTimeSteps_ is the number of sleep() calls since construction or reset()
  /\ [](call.op \in {"reset", "Rate"} => numTimeSteps = 0)
  /\ [][numTimeSteps' = IF call'.op = "reset" THEN 0
                        ELSE IF SleepStep THEN numTimeSteps + 1
                        ELSE numTimeSteps]_vars

\* two sleep() calls with different awake times: the variance is a number > 0
C11_Witness ==
  /\ call.op = "sleep"
  /\ numTimeSteps = 2
  /\ DGreater(getAwakeTimeVar, DZero)
  /\ getAwakeTime /= getAwakeTimeMean

(***************************************************************************)
(* C13: a warning printed by sleep() shows the awake time and the warning   *)
(* threshold, an error the awake time and the error threshold.              *)
(***************************************************************************)
C13_DiagnosticShowsThreshold ==
  call.op = "sleep" =>
    /\ call.diag.level = "warn" =>
         call.diag.shown = <<awakeTime, maxTimeStepWarning>>
    /\ call.diag.level = "error" =>
         call.diag.shown = <<awakeTime, maxTimeStepError>>

(***************************************************************************)
(* C16: with enforceRate and a fixed time step > 0, a sleep() of a schedule *)
(* that has overrun returns without waiting while the step time lies before *)
(* its clock sample, waits for the step time once it does not, and in both  *)
(* cases leaves the step time at the reset anchor plus numTimeSteps_ time   *)
(* steps.                                                                  *)
(***************************************************************************)
C16_CatchUpKeepsSchedule ==
  [][(/\ SleepStep
      /\ enforceRate
      /\ fixedStep
      /\ ~DIsZero(timeStep)
      /\ stepTime = TsPlusSteps(anchor, NsOf(timeStep), numTimeSteps)
      /\ ~onSchedule') =>
       /\ FoundBehind => (call'.wait = NoTime /\ clock' = call'.sample)
       /\ ~FoundBehind => call'.wait = stepTime'
       /\ stepTime' = TsPlusSteps(anchor, NsOf(timeStep), numTimeSteps')]_vars

(***************************************************************************)
(* C17: a sleep() that finds the advanced step time not before its clock    *)
(* sample (equal included) sets sleepEndTime_ to the step time, keeps the   *)
(* step time, and waits for that absolute instant; every sleep() measures   *)
(* the awake time from sleepEndTime_.                                       *)
(***************************************************************************)
C17_OnTimeBranch ==
  [][SleepStep =>
       /\ awakeTime' = GetDuration(sleepEndTime, clock)
       /\ ~FoundBehind =>
            /\ stepTime' = NextStepTime(stepTime, timeStep)
            /\ sleepEndTime' = stepTime'
            /\ call'.wait = stepTime']_vars

\* the boundary: the step time equals the clock sample, and the call waited
C17_Witness ==
  /\ call.op = "sleep"
  /\ call.wait = call.sample
  /\ sleepEndTime = call.sample
  /\ stepTime = call.sample
  /\ TsLess(anchor, stepTime) \/ numTimeSteps = 1

(***************************************************************************)
(* C18: the awake time recorded by every sleep() is >= 0.                   *)
(***************************************************************************)
C18_AwakeTimeNotNegative ==
  call.op = "sleep" => DGeq(awakeTime, DZero)

(***************************************************************************)
(* C19: after reset() and after every sleep(), stepTime_ <= sleepEndTime_   *)
(* and sleepStartTime_ <= sleepEndTime_; stepTime_ < sleepEndTime_ exactly  *)
(* after a sleep() that was behind schedule with enforceRate.               *)
(***************************************************************************)
C19_ScheduleOrder ==
  call.op \in {"reset", "Rate", "sleep"} =>
    /\ ~TsLess(sleepEndTime, stepTime)
    /\ ~TsLess(sleepEndTime, sleepStartTime)
    /\ TsLess(stepTime, sleepEndTime)
         <=> (call.op = "sleep" /\ call.wait = NoTime /\ enforceRate)

\* the second of two sleep() calls that were behind with enforceRate
C19_Witness ==
  /\ call.op = "sleep"
  /\ call.wait = NoTime
  /\ enforceRate
  /\ numTimeSteps = 2
  /\ TsLess(stepTime, sleepEndTime)
  /\ TsLess(sleepStartTime, sleepEndTime)

(***************************************************************************)
(* C20: the move constructor carries over the configuration, the three      *)
(* time stamps and the statistics of its source.                            *)
(***************************************************************************)
C20_MoveCarriesState ==
  [][call'.op = "Rate(Rate&&)" => UNCHANGED <<config, schedule, stats>>]_vars

(***************************************************************************)
(* C12: whatever setter calls interleave with a sleep() call, the call      *)
(* advances the step time by the advance of one value that timeStep_ held   *)
(* while the call was in progress, increments at most one of numWarnings_   *)
(* and numErrors_, and ends in one branch: it waits until the advanced      *)
(* step time when that is not before its clock sample, and otherwise        *)
(* returns at once with the step time kept or moved to the sample as one    *)
(* value that enforceRate_ held during the call says.                       *)
(***************************************************************************)
C12_SettersSafeWithSleep ==
  (call.op = "sleep" /\ thread.pc = "idle") =>
    /\ \E v \in thread.timeSteps : thread.advanced = NextStepTime(thread.step0, v)
    /\ numErrors >= thread.errors0
    /\ numWarnings >= thread.warnings0
    /\ (numErrors - thread.errors0) + (numWarnings - thread.warnings0) <= 1
    /\ IF TsLess(thread.advanced, call.sample)
       THEN /\ call.wait = NoTime
            /\ \E e \in thread.enforceRates :
                 stepTime = IF e THEN thread.advanced ELSE call.sample
       ELSE /\ call.wait = thread.advanced
            /\ stepTime = thread.advanced
            /\ sleepEndTime = thread.advanced

\* setTimeStep stored a new value after the call had advanced by the old one
C12_Witness ==
  /\ call.op = "sleep"
  /\ thread.pc = "idle"
  /\ Cardinality(thread.timeSteps) = 2
  /\ thread.advanced /= NextStepTime(thread.step0, timeStep)
  /\ thread.advanced /= thread.step0

(***************************************************************************)
(* C14: once stop() has been called, directly or through signalHandler, at  *)
(* any point after init() has bound the signal handler, run() does not      *)
(* block forever: execute() gets past run() (or the process has ended).     *)
(***************************************************************************)
PastRun ==
  node.pc \in {"cleanup", "preCleanup", "stopAllWorkers", "spinnerStop",
               "implCleanup", "return", "done", "killed"}

C14_StopEndsRun == node.stopCalled ~> PastRun

(***************************************************************************)
(* C15: execute() calls init() first, run() if and only if init()           *)
(* succeeded, then cleanup() whatever init() returned, and returns what     *)
(* init() returned; cleanup() calls preCleanup, stopAllWorkers, the         *)
(* spinner's stop and the implementation's cleanup in this order.           *)
(***************************************************************************)
ExecuteLog(initSuccess) ==
  <<"init">> \o (IF initSuccess THEN <<"run">> ELSE <<>>)
    \o <<"cleanup", "preCleanup", "stopAllWorkers", "spinner.stop", "impl.cleanup">>

IsPrefix(a, b) == Len(a) <= Len(b) /\ a = SubSeq(b, 1, Len(a))

C15_ExecuteOrder ==
  /\ \E ok \in BOOLEAN : IsPrefix(node.log, ExecuteLog(ok))
  /\ Len(node.log) >= 2 => IsPrefix(node.log, ExecuteLog(node.initSuccess))
  /\ node.pc = "done" => node.returned
  /\ node.returned => node.pc \in {"done", "killed"}
  /\ node.returned =>
       /\ node.log = ExecuteLog(node.initSuccess)
       /\ node.result = node.initSuccess

C15_Witness ==
  /\ node.returned
  /\ node.result
  /\ node.log = ExecuteLog(TRUE)
  /\ ~node.running

====
